---- MODULE Spec2Model ----
(***************************************************************************)
(* A model of the PDF player plugin (src/src/plugins/pdfPlayer/plugin.js). *)
(*                                                                         *)
(* One PdfPlayer instance is modelled.  Every handler of the class (a      *)
(* public method called by the host, a DOM listener, a promise             *)
(* continuation) runs to completion on the single UI thread, so each is    *)
(* one action.  The collaborators the class calls are modelled by what the *)
(* class can observe of them:                                              *)
(*   - the dialog host: dialogHelper.open puts the dialog with its canvas  *)
(*     in the DOM, dialogHelper.close takes it out; the user dismissing    *)
(*     the dialog reaches the class through its 'close' listener;          *)
(*   - pdfjs: import('pdfjs'), getDocument, getPage and page.render each   *)
(*     settle in a later turn of the event loop, in any order;             *)
(*   - the host calls play() on an instance that is not playing (never     *)
(*     played, or stopped) and may call stop() at any time; it resumes a   *)
(*     document at a position the player reported earlier.                 *)
(* loading.show/hide, dialogHelper.open/close, getDocument, resolve() and  *)
(* the drawing calls are recorded as the effects of the handler that made  *)
(* them.                                                                   *)
(* Fields that are undefined before the first play() are modelled by the   *)
(* value they behave as: FALSE, 0, or the empty cache.                     *)
(*                                                                         *)
(* SpecItems applies canPlayItem and canPlayMediaType to one item.         *)
(* SpecCollapse models one collapse element                                *)
(* (src/src/elements/emby-collapse/emby-collapse.js): the browser calls    *)
(* attachedCallback whenever the element enters a document, the user       *)
(* clicks its toggle button, and the setTimeout callbacks of the slides    *)
(* run in the order they were scheduled.  The markup of the element        *)
(* carries neither the 'emby-collapse' class nor, on its content, the      *)
(* 'hide' or 'expanded' class.                                             *)
(***************************************************************************)
EXTENDS Integers, Sequences, FiniteSets, TLC

\* ---------------------------------------------------------------- bounds
\* Largest page count of a document of the library.
MaxPages == 2
\* How many times the host calls play() on the instance.
MaxPlays == 2
\* next() is offered while progress is inside the document or below this value
\* (progress can run past the document after a stale load, see DocumentLoaded).
MaxProgress == 3
\* A page load is offered while it leaves at most this many getPage / render
\* continuations in flight (one that starts with none in flight always is).
MaxInFlight == 2
\* The count of next() calls since the document loaded saturates here.
NavCap == 4
\* Longest path, over PathChars, of an item the host asks canPlayItem about.
MaxPathLen == 4
\* How many times the toggle button of the collapse element is clicked.
MaxClicks == 3
\* How many times attachedCallback runs on the collapse element.
MaxAttach == 3

\* --------------------------------------------------------------- variables
VARIABLES
    \* fields of the PdfPlayer instance
    progress, loaded, cancellationToken, pages, book, mediaElement,
    \* listeners: on document (keyup, touchstart), on the dialog (close, click)
    keyupBound, touchstartBound, closeBound, clickBound,
    \* the DOM: the dialog is open; the page its canvas shows (0: none)
    dialogOpen, canvas,
    \* play cycles and the continuations in flight
    plays, item, options, importState, docState, promiseState,
    getPageInFlight, renderInFlight,
    \* the DOM event the last handler handled ("none": a call of the host or
    \* a continuation); what that handler called, did and loaded
    event, called, effects, loadNumber, rendered, lastLoad, repeated,
    \* history: stop() was called since the last play() / ever; the play cycles
    \* whose pending document load was in flight at a stop(); the next() run
    stopped, everStopped, inFlightAtStop, nextRun,
    \* the environment: the items of the library and the host's play() budget
    library, playBudget,
    \* the host's applicability query: the item asked about, whether the
    \* player has answered, and what canPlayItem / canPlayMediaType returned
    asked, answered, canPlayItemResult, canPlayMediaTypeResult,
    \* the collapse element (emby-collapse.js): its 'emby-collapse' class, its
    \* toggle buttons and their click listeners, its data-expanded attribute,
    \* whether it has a .collapseContent child
    attached, buttons, clickListeners, dataExpanded, hasContent,
    \* the content: its expanded property, its 'hide' and 'expanded' classes
    \* and its style.height; the 'emby-collapse-expandIconExpanded' class of
    \* the icon; the pending setTimeout callbacks, oldest first
    expanded, hideClass, expandedClass, height, iconExpanded, timers,
    \* what ran last on the element, and how often it was clicked and attached
    collapseOp, clicks, attachedCalls

player == <<progress, loaded, cancellationToken, pages, book, mediaElement>>
listeners == <<keyupBound, touchstartBound, closeBound, clickBound>>
dom == <<dialogOpen, canvas>>
cycles == <<plays, item, options, importState, docState, promiseState>>
inflight == <<getPageInFlight, renderInFlight>>
step == <<event, called, effects, loadNumber, rendered, lastLoad, repeated>>
history == <<stopped, everStopped, inFlightAtStop, nextRun>>
query == <<asked, answered, canPlayItemResult, canPlayMediaTypeResult>>
element == <<attached, buttons, clickListeners, dataExpanded, hasContent>>
content == <<expanded, hideClass, expandedClass, height, iconExpanded, timers>>
collapse == <<element, content, collapseOp, clicks, attachedCalls>>
env == <<library, playBudget, query, collapse>>
vars == <<player, listeners, dom, cycles, inflight, step, history, env>>

\* ------------------------------------------------------------ page keys
\* loadPage keys the cache by the string 'page' + number and gets the number
\* back with parseInt(page.substr(4)).  A string is a sequence of characters.
prefix == <<"p", "a", "g", "e">>

DigitChars == <<"0", "1", "2", "3", "4", "5", "6", "7", "8", "9">>

RECURSIVE NumberToString(_)
NumberToString(n) ==
    IF n < 10 THEN <<DigitChars[n + 1]>>
    ELSE NumberToString(n \div 10) \o <<DigitChars[(n % 10) + 1]>>

PageKey(number) == prefix \o NumberToString(number)

substr(s, from) == SubSeq(s, from + 1, Len(s))

DigitValue(c) == CHOOSE d \in 0..9 : DigitChars[d + 1] = c

RECURSIVE parseInt(_)
parseInt(s) ==
    IF Len(s) = 1 THEN DigitValue(s[1])
    ELSE parseInt(SubSeq(s, 1, Len(s) - 1)) * 10 + DigitValue(s[Len(s)])

PageNumber(key) == parseInt(substr(key, 4))

PageNumbers(keys) == {PageNumber(k) : k \in keys}

\* ------------------------------------------------------------ page window
pad == 2

duration == book

\* The list `pages` that loadPage builds for the requested page.
Window(number, dur) ==
    {PageKey(number)}
        \cup {PageKey(number - i) : i \in {j \in 1..pad : number - j > 0}}
        \cup {PageKey(number + i) : i \in {j \in 1..pad : number + j < dur}}

\* Mutant: every page of the window is rendered again, cached or not.
MissingAll(cache, window) == window

\* The keys of the window that loadPage creates a canvas for and renders.
Missing(cache, window) == {k \in window : k \notin cache}

\* Mutant: the deletion loop deletes nothing.
EvictNothing(cache, window) == cache

\* The cache after the deletion loop.
Evict(cache, window) == {k \in cache : k \in window}

\* document.getElementById('canvas') finds the canvas of the open dialog.
CanvasPresent == dialogOpen

\* book.getPage(number) resolves for the pages of the document.
GetPageResolves(number, bk) == number \in 1..bk

\* A bound of the model, not of the program: see MaxInFlight.
LoadFits(number, bk) ==
    \/ getPageInFlight + renderInFlight = 0
    \/ getPageInFlight + renderInFlight
           + Cardinality(Missing(pages, Window(number, bk))) <= MaxInFlight

\* loadPage(number) with this.book = bk.  Without a canvas in the DOM,
\* replaceCanvas throws after the cache was filled and before the deletion loop.
loadPage(number, bk) ==
    LET window == Window(number, bk)
        missing == Missing(pages, window)
        requested == PageNumbers(missing)
    IN  /\ pages' = IF CanvasPresent THEN Evict(pages \cup missing, window)
                    ELSE pages \cup missing
        /\ getPageInFlight' = getPageInFlight
               + Cardinality({n \in requested : GetPageResolves(n, bk)})
        /\ canvas' = IF CanvasPresent THEN number ELSE canvas
        /\ loadNumber' = number
        /\ rendered' = requested
        /\ lastLoad' = <<number, bk>>
        /\ repeated' = (lastLoad = <<number, bk>>)

NoLoad ==
    /\ loadNumber' = 0
    /\ rendered' = {}
    /\ repeated' = FALSE
    /\ UNCHANGED lastLoad

\* nextRun counts the next() calls since the document loaded while nothing
\* else navigated; NavCap stands for any other navigation history.
Saturate(n) == IF n < NavCap THEN n + 1 ELSE NavCap

\* ------------------------------------------------------------- navigation
\* Mutant: next() compares progress with the page count, one too far.
NextAtEndOff(prog, dur) == prog = dur

NextAtEnd(prog, dur) == prog = dur - 1

PreviousAtStart(prog) == prog = 0

next ==
    /\ called' = "next"
    /\ nextRun' = Saturate(nextRun)
    /\ IF NextAtEnd(progress, duration)
       THEN NoLoad /\ UNCHANGED <<progress, pages, canvas, getPageInFlight>>
       ELSE /\ loadPage(progress + 2, book)
            /\ progress' = IF CanvasPresent THEN progress + 1 ELSE progress

previous ==
    /\ called' = "previous"
    /\ nextRun' = NavCap
    /\ IF PreviousAtStart(progress)
       THEN NoLoad /\ UNCHANGED <<progress, pages, canvas, getPageInFlight>>
       ELSE /\ loadPage(progress, book)
            /\ progress' = IF CanvasPresent THEN progress - 1 ELSE progress

\* What a handler that navigates leaves alone.
NavigationFrame ==
    /\ effects' = {}
    /\ UNCHANGED <<loaded, cancellationToken, book, mediaElement>>
    /\ UNCHANGED <<listeners, dialogOpen, cycles, renderInFlight>>
    /\ UNCHANGED <<stopped, everStopped, inFlightAtStop, env>>

\* ------------------------------------------------------------------- stop
\* close and click are the listeners on the dialog when stop() starts.
unbindEvents(close, click) ==
    /\ closeBound' = IF mediaElement THEN FALSE ELSE close
    /\ clickBound' = IF mediaElement THEN FALSE ELSE click
    /\ keyupBound' = FALSE
    /\ touchstartBound' = FALSE

\* Mutant: stop() forgets the dialog.
stopKeepsDialog(close, click) ==
    /\ called' = "stop"
    /\ unbindEvents(close, click)
    /\ UNCHANGED <<dialogOpen, canvas, mediaElement>>
    /\ effects' = {"loading.hide"}
    /\ cancellationToken' = TRUE
    /\ stopped' = TRUE
    /\ everStopped' = TRUE
    /\ inFlightAtStop' =
           inFlightAtStop \cup {c \in 1..plays : docState[c] = "pending"}

\* Mutant: stop() closes the dialog and keeps this.mediaElement.
stopKeepsMediaElement(close, click) ==
    /\ called' = "stop"
    /\ unbindEvents(close, click)
    /\ IF mediaElement
       THEN /\ dialogOpen' = FALSE
            /\ canvas' = 0
            /\ mediaElement' = TRUE
            /\ effects' = {"dialogHelper.close", "loading.hide"}
       ELSE /\ UNCHANGED <<dialogOpen, canvas, mediaElement>>
            /\ effects' = {"loading.hide"}
    /\ cancellationToken' = TRUE
    /\ stopped' = TRUE
    /\ everStopped' = TRUE
    /\ inFlightAtStop' =
           inFlightAtStop \cup {c \in 1..plays : docState[c] = "pending"}

stop(close, click) ==
    /\ called' = "stop"
    /\ unbindEvents(close, click)
    /\ IF mediaElement
       THEN /\ dialogOpen' = FALSE
            /\ canvas' = 0
            /\ mediaElement' = FALSE
            /\ effects' = {"dialogHelper.close", "loading.hide"}
       ELSE /\ UNCHANGED <<dialogOpen, canvas, mediaElement>>
            /\ effects' = {"loading.hide"}
    /\ cancellationToken' = TRUE
    /\ stopped' = TRUE
    /\ everStopped' = TRUE
    /\ inFlightAtStop' =
           inFlightAtStop \cup {c \in 1..plays : docState[c] = "pending"}

\* What a handler that stops leaves alone.
StopFrame ==
    /\ NoLoad
    /\ UNCHANGED <<progress, loaded, pages, book>>
    /\ UNCHANGED <<cycles, inflight, nextRun, env>>

\* ------------------------------------------------------------------- play
\* The ticks of one page of the start position.
TicksPerPage == 10000

createMediaElement ==
    /\ mediaElement' = TRUE
    /\ IF mediaElement \/ dialogOpen
       THEN UNCHANGED <<dialogOpen, canvas, closeBound, clickBound>>
       ELSE /\ dialogOpen' = TRUE
            /\ canvas' = 0
            /\ closeBound' = FALSE
            /\ clickBound' = FALSE

\* The host plays it = <<page count of the document, startPositionTicks>>.
\* options[c] is what the continuations of play cycle c have captured; item
\* is this.item, kept with the start position it was played from.
Play(it) ==
    /\ plays < playBudget
    /\ plays = 0 \/ stopped
    /\ event' = "none"
    /\ called' = "play"
    /\ progress' = 0
    /\ loaded' = FALSE
    /\ cancellationToken' = FALSE
    /\ pages' = {}
    /\ createMediaElement
    /\ effects' = IF mediaElement \/ dialogOpen THEN {"loading.show"}
                  ELSE {"loading.show", "dialogHelper.open"}
    /\ plays' = plays + 1
    /\ item' = it
    /\ options' = [options EXCEPT ![plays + 1] = it]
    /\ importState' = [importState EXCEPT ![plays + 1] = "pending"]
    /\ promiseState' = [promiseState EXCEPT ![plays + 1] = "pending"]
    /\ loadNumber' = 0
    /\ rendered' = {}
    /\ repeated' = FALSE
    /\ lastLoad' = <<0, 0>>
    /\ stopped' = FALSE
    /\ nextRun' = 0
    /\ UNCHANGED <<book, keyupBound, touchstartBound, docState, inflight>>
    /\ UNCHANGED <<everStopped, inFlightAtStop, env>>

\* The host, the exit button, the dialog's close event: each runs stop().
Stop ==
    /\ event' = "none"
    /\ stop(closeBound, clickBound)
    /\ StopFrame

\* The listeners on the dialog are registered with {once: true}: the one that
\* fires is removed before onDialogClosed runs.
DialogClose ==
    /\ closeBound /\ dialogOpen
    /\ event' = "close"
    /\ stop(FALSE, clickBound)
    /\ StopFrame

ExitClick ==
    /\ clickBound /\ dialogOpen
    /\ event' = "click"
    /\ stop(closeBound, FALSE)
    /\ StopFrame

\* --------------------------------------------------------- setCurrentSrc
\* The last continuation of play cycle c has run: what it captured is dropped.
Released(c) == [options EXCEPT ![c] = <<0, 0>>]

\* Mutant: bindMediaElementEvents skips a missing dialog instead of throwing.
bindEventsNeverThrows == FALSE

\* bindMediaElementEvents dereferences this.mediaElement, which stop() nulls.
bindEventsThrows == ~mediaElement

bindEvents ==
    /\ closeBound' = TRUE
    /\ clickBound' = TRUE
    /\ keyupBound' = TRUE
    /\ touchstartBound' = TRUE

Ignored ==
    /\ called' = "none"
    /\ effects' = {}
    /\ NoLoad
    /\ UNCHANGED <<player, listeners, dom, cycles, inflight, history, env>>

\* The continuation of import('pdfjs') of play cycle c.
ImportResolved(c) ==
    /\ importState[c] = "pending"
    /\ event' = "none"
    /\ called' = "none"
    /\ NoLoad
    /\ UNCHANGED <<player, dom, plays, item, promiseState, inflight>>
    /\ UNCHANGED <<history, env>>
    /\ IF bindEventsThrows
       THEN /\ importState' = [importState EXCEPT ![c] = "threw"]
            /\ options' = Released(c)
            /\ effects' = {}
            /\ UNCHANGED <<listeners, docState>>
       ELSE /\ importState' = [importState EXCEPT ![c] = "done"]
            /\ bindEvents
            /\ UNCHANGED options
            /\ docState' = [docState EXCEPT ![c] = "pending"]
            /\ effects' = {"getDocument"}

\* if (this.cancellationToken) return;
Cancelled(token) == token

percentageTicks(it) == it[2] \div TicksPerPage

StartPage(it) ==
    IF percentageTicks(it) # 0 THEN percentageTicks(it) ELSE 1

\* The continuation of downloadTask.promise of play cycle c.
DocumentLoaded(c) ==
    /\ docState[c] = "pending"
    /\ event' = "none"
    /\ called' = "none"
    /\ UNCHANGED <<cancellationToken, mediaElement, listeners>>
    /\ UNCHANGED <<dialogOpen, plays, item, importState>>
    /\ options' = Released(c)
    /\ UNCHANGED <<renderInFlight, stopped, everStopped, env>>
    /\ inFlightAtStop' = inFlightAtStop \ {c}
    /\ IF Cancelled(cancellationToken)
       THEN /\ docState' = [docState EXCEPT ![c] = "cancelled"]
            /\ effects' = {}
            /\ NoLoad
            /\ UNCHANGED <<progress, loaded, pages, book, canvas>>
            /\ UNCHANGED <<promiseState, getPageInFlight, nextRun>>
       ELSE /\ LoadFits(StartPage(options[c]), options[c][1])
            /\ docState' = [docState EXCEPT ![c] = "loaded"]
            /\ book' = options[c][1]
            /\ loaded' = TRUE
            /\ loadPage(StartPage(options[c]), options[c][1])
            /\ progress' = IF CanvasPresent /\ percentageTicks(options[c]) # 0
                           THEN percentageTicks(options[c]) ELSE progress
            /\ promiseState' = IF CanvasPresent
                               THEN [promiseState EXCEPT ![c] = "resolved"]
                               ELSE promiseState
            /\ effects' = IF CanvasPresent THEN {"resolve"} ELSE {}
            /\ nextRun' = 0

\* downloadTask.promise rejects: the code attaches no rejection handler.
DocumentFailed(c) ==
    /\ docState[c] = "pending"
    /\ event' = "none"
    /\ docState' = [docState EXCEPT ![c] = "failed"]
    /\ called' = "none"
    /\ effects' = {}
    /\ NoLoad
    /\ options' = Released(c)
    /\ inFlightAtStop' = inFlightAtStop \ {c}
    /\ UNCHANGED <<player, listeners, dom, plays, item, importState>>
    /\ UNCHANGED <<promiseState, inflight, stopped, everStopped, nextRun, env>>

\* ------------------------------------------------------------- listeners
\* Mutant: the listeners handle events before the document has loaded.
alwaysLoaded == FALSE

\* if (!this.loaded) return;
notLoaded == ~loaded

NextKeys == {"l", "ArrowRight", "Right"}

PreviousKeys == {"j", "ArrowLeft", "Left"}

Keys == NextKeys \cup PreviousKeys \cup {"Escape", "Enter"}

\* Bounds of the model, not of the program: see MaxProgress and MaxInFlight.
NextOffered ==
    /\ progress < duration \/ progress < MaxProgress
    /\ NextAtEnd(progress, duration) \/ LoadFits(progress + 2, book)

PreviousOffered ==
    PreviousAtStart(progress) \/ LoadFits(progress, book)

onWindowKeyUp(key) ==
    /\ keyupBound
    /\ event' = "keyup"
    /\ IF notLoaded THEN Ignored
       ELSE CASE key \in NextKeys -> NextOffered /\ next /\ NavigationFrame
              [] key \in PreviousKeys ->
                     PreviousOffered /\ previous /\ NavigationFrame
              [] key = "Escape" -> stop(closeBound, clickBound) /\ StopFrame
              [] OTHER -> Ignored

Touches == {"none", "left", "right"}

onTouchStart(touch) ==
    /\ touchstartBound
    /\ event' = "touchstart"
    /\ IF notLoaded \/ touch = "none" THEN Ignored
       ELSE IF touch = "left"
            THEN PreviousOffered /\ previous /\ NavigationFrame
            ELSE NextOffered /\ next /\ NavigationFrame

\* -------------------------------------------------------------- renderPage
\* The continuation of book.getPage(number): it reads no field of the player.
GetPageResolved ==
    /\ getPageInFlight > 0
    /\ event' = "none"
    /\ called' = "none"
    /\ effects' = {"timeupdate", "canvas.resize", "page.render"}
    /\ getPageInFlight' = getPageInFlight - 1
    /\ renderInFlight' = renderInFlight + 1
    /\ NoLoad
    /\ UNCHANGED <<player, listeners, dom, cycles, history, env>>

\* The continuation of renderTask.promise.
RenderTaskResolved ==
    /\ renderInFlight > 0
    /\ event' = "none"
    /\ called' = "none"
    /\ effects' = {"loading.hide"}
    /\ renderInFlight' = renderInFlight - 1
    /\ NoLoad
    /\ UNCHANGED <<player, listeners, dom, cycles>>
    /\ UNCHANGED <<getPageInFlight, history, env>>

\* ------------------------------------------------------------ specification
\* An item is <<page count of its document, startPositionTicks>>; a resume
\* position is a progress the player reported earlier, so it lies in 0..d-1.
Resumable(d) == {<<d, s * TicksPerPage>> : s \in 0..(d - 1)}

\* The one-page document, and the largest one from the start and resumed.
Library ==
    Resumable(1) \cup {it \in Resumable(MaxPages) : percentageTicks(it) <= 1}

InitPlayer(lib, budget) ==
    /\ progress = 0
    /\ loaded = FALSE
    /\ cancellationToken = FALSE
    /\ pages = {}
    /\ book = 0
    /\ mediaElement = FALSE
    /\ keyupBound = FALSE
    /\ touchstartBound = FALSE
    /\ closeBound = FALSE
    /\ clickBound = FALSE
    /\ dialogOpen = FALSE
    /\ canvas = 0
    /\ plays = 0
    /\ item = <<0, 0>>
    /\ options = [c \in 1..budget |-> <<0, 0>>]
    /\ importState = [c \in 1..budget |-> "none"]
    /\ docState = [c \in 1..budget |-> "none"]
    /\ promiseState = [c \in 1..budget |-> "none"]
    /\ getPageInFlight = 0
    /\ renderInFlight = 0
    /\ event = "none"
    /\ called = "none"
    /\ effects = {}
    /\ loadNumber = 0
    /\ rendered = {}
    /\ lastLoad = <<0, 0>>
    /\ repeated = FALSE
    /\ stopped = FALSE
    /\ everStopped = FALSE
    /\ inFlightAtStop = {}
    /\ nextRun = 0
    /\ library = lib
    /\ playBudget = budget

\* The host has asked nothing.
NoQuery ==
    /\ asked = [hasPath |-> FALSE, Path |-> <<>>, MediaType |-> <<>>]
    /\ answered = FALSE
    /\ canPlayItemResult = FALSE
    /\ canPlayMediaTypeResult = FALSE

\* A collapse element with content, not yet attached.
InitElement(dataExp, hasCont) ==
    /\ attached = FALSE
    /\ buttons = 0
    /\ clickListeners = 0
    /\ dataExpanded = dataExp
    /\ hasContent = hasCont
    /\ expanded = FALSE
    /\ hideClass = FALSE
    /\ expandedClass = FALSE
    /\ height = "unset"
    /\ iconExpanded = FALSE
    /\ timers = <<>>
    /\ collapseOp = "none"
    /\ clicks = 0
    /\ attachedCalls = 0

NoElement == InitElement(FALSE, TRUE)

Init == InitPlayer(Library, MaxPlays) /\ NoQuery /\ NoElement

\* One play of a 10-page document, from the start or resumed.
InitTen == InitPlayer(Resumable(10), 1) /\ NoQuery /\ NoElement

Next ==
    \/ \E it \in library : Play(it)
    \/ Stop
    \/ DialogClose
    \/ ExitClick
    \/ \E c \in 1..plays : ImportResolved(c)
    \/ \E c \in 1..plays : DocumentLoaded(c)
    \/ \E c \in 1..plays : DocumentFailed(c)
    \/ \E key \in Keys : onWindowKeyUp(key)
    \/ \E touch \in Touches : onTouchStart(touch)
    \/ GetPageResolved
    \/ RenderTaskResolved

Spec == Init /\ [][Next]_vars

SpecTen == InitTen /\ [][Next]_vars

\* ---------------------------------------------------------- applicability
\* The strings of an item are sequences of characters, as the page keys are.
UpperCase == <<"B", "O", "K", "V", "I", "D", "E", "P", "F">>

LowerCase == <<"b", "o", "k", "v", "i", "d", "e", "p", "f">>

\* String.prototype.toLowerCase, character by character.
toLowerCaseChar(c) ==
    IF \E i \in 1..Len(UpperCase) : UpperCase[i] = c
    THEN LowerCase[CHOOSE i \in 1..Len(UpperCase) : UpperCase[i] = c]
    ELSE c

toLowerCase(s) == [i \in 1..Len(s) |-> toLowerCaseChar(s[i])]

\* String.prototype.endsWith.
endsWith(s, suffix) ==
    /\ Len(s) >= Len(suffix)
    /\ SubSeq(s, Len(s) - Len(suffix) + 1, Len(s)) = suffix

\* (mediaType || '').toLowerCase() === 'book'; a missing media type is <<>>.
canPlayMediaType(mediaType) == toLowerCase(mediaType) = <<"b", "o", "o", "k">>

\* item.Path && item.Path.endsWith('pdf'): a missing and an empty Path are
\* both falsy.
canPlayItem(it) ==
    it.hasPath /\ it.Path # <<>> /\ endsWith(it.Path, <<"p", "d", "f">>)

\* The host asks whether the player applies to the item.
CanPlay ==
    /\ ~answered
    /\ answered' = TRUE
    /\ canPlayItemResult' = canPlayItem(asked)
    /\ canPlayMediaTypeResult' = canPlayMediaType(asked.MediaType)
    /\ UNCHANGED <<asked, library, playBudget, collapse>>
    /\ UNCHANGED <<player, listeners, dom, cycles, inflight, step, history>>

\* The paths the host asks about: the two of the scenario, and every string
\* over PathChars up to MaxPathLen.
movie == <<"m", "o", "v", "i", "e">>

PathChars == {".", "p", "d", "f", "F"}

RECURSIVE Strings(_)
Strings(n) ==
    IF n = 0 THEN {<<>>}
    ELSE LET shorter == Strings(n - 1)
         IN  shorter \cup {Append(s, c) : s \in shorter, c \in PathChars}

Paths ==
    Strings(MaxPathLen)
        \cup {movie \o <<".", "p", "d", "f">>, movie \o <<".", "m", "k", "v">>}

MediaTypes ==
    {<<>>, <<"B", "o", "o", "k">>, <<"b", "o", "o", "k">>,
     <<"V", "i", "d", "e", "o">>}

Items ==
    {[hasPath |-> TRUE, Path |-> p, MediaType |-> t] :
         p \in Paths, t \in MediaTypes}
        \cup {[hasPath |-> FALSE, Path |-> <<>>, MediaType |-> t] :
                  t \in MediaTypes}

InitItems ==
    /\ InitPlayer({}, 0)
    /\ asked \in Items
    /\ answered = FALSE
    /\ canPlayItemResult = FALSE
    /\ canPlayMediaTypeResult = FALSE
    /\ NoElement

NextItems == CanPlay

SpecItems == InitItems /\ [][NextItems]_vars

\* ------------------------------------------------------- collapse element
\* The timer callback of both slides, on the 'hide' class: removed when the
\* content carries 'expanded', added otherwise.
\* Mutant: the callback hides the content whatever its classes.
hideAlways(hasExpanded) == TRUE

hideAfterTimer(hasExpanded) == ~hasExpanded

\* hide is the 'hide' class of the content when the slide starts.
slideDownToShow(hide) ==
    /\ hideClass' = FALSE
    /\ expandedClass' = TRUE
    /\ height' = "px"
    /\ timers' = Append(timers, "show")
    /\ iconExpanded' = TRUE

slideUpToHide(hide) ==
    /\ hideClass' = hide
    /\ expandedClass' = FALSE
    /\ height' = "0"
    /\ timers' = Append(timers, "hide")
    /\ iconExpanded' = FALSE

\* Without a .collapseContent child, reading collapseContent.expanded throws.
onButtonClick(hide) ==
    IF ~hasContent
    THEN /\ hideClass' = hide
         /\ UNCHANGED <<expanded, expandedClass, height, iconExpanded, timers>>
    ELSE IF expanded
         THEN expanded' = FALSE /\ slideUpToHide(hide)
         ELSE expanded' = TRUE /\ slideDownToShow(hide)

\* What the handlers of the collapse element leave alone.
CollapseFrame ==
    /\ UNCHANGED <<library, playBudget, query>>
    /\ UNCHANGED <<player, listeners, dom, cycles, inflight, step, history>>

\* The user clicks the toggle button.
Click ==
    /\ buttons > 0 /\ clickListeners > 0
    /\ clicks < MaxClicks
    /\ clicks' = clicks + 1
    /\ collapseOp' = "click"
    /\ onButtonClick(hideClass)
    /\ UNCHANGED <<element, attachedCalls>>
    /\ CollapseFrame

\* The callback of the oldest pending setTimeout: both slides wait 300 ms, so
\* the callbacks run in the order they were scheduled.
TimerFired ==
    /\ timers # <<>>
    /\ collapseOp' = "timer"
    /\ hideClass' = hideAfterTimer(expandedClass)
    /\ height' = IF Head(timers) = "show" THEN "auto" ELSE height
    /\ timers' = Tail(timers)
    /\ UNCHANGED <<element, expanded, expandedClass, iconExpanded>>
    /\ UNCHANGED <<clicks, attachedCalls>>
    /\ CollapseFrame

\* Mutant: attachedCallback does not look for the 'emby-collapse' class.
neverInitialised == FALSE

\* this.classList.contains('emby-collapse')
alreadyInitialised == attached

\* The browser calls attachedCallback each time the element enters a document.
attachedCallback ==
    /\ attachedCalls < MaxAttach
    /\ attachedCalls' = attachedCalls + 1
    /\ collapseOp' = "attachedCallback"
    /\ UNCHANGED <<dataExpanded, hasContent, clicks>>
    /\ CollapseFrame
    /\ IF alreadyInitialised
       THEN UNCHANGED <<attached, buttons, clickListeners, content>>
       ELSE /\ attached' = TRUE
            /\ buttons' = buttons + 1
            /\ clickListeners' = clickListeners + 1
            /\ IF dataExpanded
               THEN onButtonClick(hasContent \/ hideClass)
               ELSE /\ hideClass' = (hasContent \/ hideClass)
                    /\ UNCHANGED <<expanded, expandedClass, height>>
                    /\ UNCHANGED <<iconExpanded, timers>>

InitCollapse ==
    /\ InitPlayer({}, 0)
    /\ NoQuery
    /\ \E dataExp \in BOOLEAN, hasCont \in BOOLEAN :
           InitElement(dataExp, hasCont)

NextCollapse ==
    \/ attachedCallback
    \/ Click
    \/ TimerFired

SpecCollapse == InitCollapse /\ [][NextCollapse]_vars

\* ------------------------------------------------------------------ claims
\* Ready: a loaded document, a populated cache and a visible page.
Ready == loaded /\ pages # {} /\ canvas # 0

\* C1: for every n in 1..pageCount, right after loadPage(n) returns the key set
\* of the cache is {n-2, ..., n+2} intersected with 1..pageCount.
C1_CacheIsClippedWindow ==
    (loadNumber \in 1..book /\ CanvasPresent) =>
        PageNumbers(pages)
            = {m \in (loadNumber - 2)..(loadNumber + 2) : m \in 1..book}

\* C2: a document load that was in flight at a stop(), and a page render that
\* resolves after a stop(), leave the cache, book, loaded and progress alone.
C2_NoMutationAfterStop ==
    [][/\ \A c \in inFlightAtStop :
              (docState[c] = "pending" /\ docState'[c] # "pending")
                  => UNCHANGED <<pages, book, loaded, progress>>
       /\ (everStopped /\ (GetPageResolved \/ RenderTaskResolved))
              => UNCHANGED <<pages, book, loaded, progress>>]_vars

\* C3: a render continuation that resumes while the cancellation flag is set
\* does nothing: no 'timeupdate', no resize, no drawing, no loading.hide().
C3_RenderAfterStopIsNoOp ==
    [][(cancellationToken /\ (GetPageResolved \/ RenderTaskResolved))
           => effects' = {}]_vars

\* C4: previous() at progress 0 and next() at progress pageCount - 1 change
\* neither progress nor the cache nor the visible page and request no render.
C4_BoundaryNoOp ==
    [][((called' = "previous" /\ progress = 0)
            \/ (called' = "next" /\ progress = duration - 1))
           => /\ UNCHANGED <<progress, pages, canvas, getPageInFlight>>
              /\ loadNumber' = 0
              /\ rendered' = {}]_vars

\* next() was called on the last page and loaded nothing.
C4_Witness ==
    /\ loaded /\ ~stopped
    /\ called = "next"
    /\ progress = duration - 1
    /\ loadNumber = 0
    /\ canvas = duration

\* C5: loadPage renders a page only when the page enters the cache, and a
\* second loadPage(n) in succession renders nothing and leaves the cache and
\* the visible page as the first left them.
C5_LoadPageIdempotent ==
    [][loadNumber' # 0
           => /\ rendered' \cap PageNumbers(pages) = {}
              /\ rendered' \subseteq PageNumbers(pages')
              /\ repeated' => /\ rendered' = {}
                              /\ pages' = pages
                              /\ canvas' = canvas]_vars

\* loadPage was called twice in succession with the same page and document.
C5_Witness == loadNumber # 0 /\ repeated /\ Cardinality(pages) > 1

\* C6: a 10-page document played from the start has the cache {1, 2, 3} once
\* it is loaded; after three next() calls page 4 is current (progress 3), the
\* cache is {2, ..., 6} and page 1 is gone.
C6_TenPageScenario ==
    (book = 10 /\ loaded /\ percentageTicks(item) = 0) =>
        /\ nextRun = 0 => PageNumbers(pages) = {1, 2, 3}
        /\ nextRun = 3 => /\ progress = 3
                          /\ PageNumbers(pages) = {2, 3, 4, 5, 6}
                          /\ 1 \notin PageNumbers(pages)
                          /\ ~stopped => canvas = 4

\* The third next() of the scenario has just run.
C6_Witness ==
    /\ book = 10 /\ loaded /\ ~stopped
    /\ percentageTicks(item) = 0
    /\ nextRun = 3
    /\ called = "next"
    /\ rendered = {6}

\* C7, as claimed: once stop() has been called on an instance, nothing makes
\* the instance Ready again.
C7_StoppedIsTerminal == everStopped => ~Ready

\* C7, amended: after stop() the instance is not Ready for as long as play()
\* is not called on it again.
C7_StoppedUntilPlay == stopped => ~Ready

\* stop() ran on a loaded player with a populated cache.
C7_Witness == stopped /\ loaded /\ pages # {} /\ called = "stop"

\* C8: when stop() returns the cache holds no rendered page.
C8_StopDiscardsCache == called = "stop" => pages = {}

\* C9: once stop() has been called for a play cycle, none of the four
\* listeners is registered, also after import('pdfjs') resolves later.
C9_NoListenersAfterStop ==
    stopped =>
        ~keyupBound /\ ~touchstartBound /\ ~closeBound /\ ~clickBound

\* The import of a stopped play cycle has resolved after the stop().
C9_Witness == stopped /\ plays > 0 /\ importState[plays] = "threw"

\* C10: once the document load of a play cycle has failed, no second load is
\* requested for it, the promise of that play() is never resolved and, until
\* play() is called again, loaded stays false and the cache stays empty.
C10_FailedLoadNeverReady ==
    [][\A c \in 1..plays :
           docState[c] = "failed" =>
               /\ docState'[c] = "failed"
               /\ promiseState'[c] = "pending"
               /\ (c = plays' /\ ~loaded /\ pages = {})
                      => (~loaded' /\ pages' = {})]_vars

\* The path of the item ends in the extension '.pdf', in any letter case.
EndsInPdfExtension(it) ==
    it.hasPath /\ endsWith(toLowerCase(it.Path), <<".", "p", "d", "f">>)

\* C11: canPlayItem answers true only for an item whose path ends in a PDF
\* extension or whose declared type is "book"; it answers true for the path
\* "movie.pdf", false for "movie.mkv" and false for an item without a path.
C11_CanPlayOnlyPdfOrBook ==
    answered =>
        /\ canPlayItemResult =>
               EndsInPdfExtension(asked) \/ canPlayMediaType(asked.MediaType)
        /\ (asked.hasPath /\ asked.Path = movie \o <<".", "p", "d", "f">>)
               => canPlayItemResult
        /\ (asked.hasPath /\ asked.Path = movie \o <<".", "m", "k", "v">>)
               => ~canPlayItemResult
        /\ ~asked.hasPath => ~canPlayItemResult

\* C12: in every Ready state progress is the zero-based index of the page
\* displayed: the visible page is page progress + 1, and progress lies in
\* 0..pageCount - 1, for every start position and after any navigation.
C12_ProgressIsPageIndex ==
    Ready => /\ canvas = progress + 1
             /\ progress \in 0..(duration - 1)

\* C13: in loadPage(n) a neighbour m = n - i or n + i, i in 1..2, is in the
\* window exactly when 1 <= m < pageCount: a page before 1 or at or after the
\* page count is neither rendered as a neighbour nor kept in the cache.
C13_NeighbourRule ==
    loadNumber # 0 =>
        \A i \in 1..2 : \A m \in {loadNumber - i, loadNumber + i} :
            /\ CanvasPresent =>
                   (m \in PageNumbers(pages) <=> (1 <= m /\ m < duration))
            /\ m \in rendered => (1 <= m /\ m < duration)

\* C14: the document made current is the one the most recent play() asked
\* for: the document load of a play cycle that was stopped never sets book or
\* loaded, never fills the cache and never resolves the promise of a play(),
\* also when play() is called again before that load resolves.
C14_OnlyLatestPlayLoads ==
    [][/\ loaded' => book' = item'[1]
       /\ \A c \in 1..plays :
              ((c < plays \/ stopped)
                  /\ docState[c] = "pending" /\ docState'[c] # "pending")
                  => /\ UNCHANGED <<book, loaded, pages>>
                     /\ promiseState' = promiseState]_vars

\* C15: when stop() was called while the document load of a play cycle was in
\* flight and the load later succeeds, the promise of that play() is never
\* settled, loaded stays false and the cache stays empty.
C15_StopDuringLoad ==
    [][\A c \in 1..plays :
           /\ (c \in inFlightAtStop
                  /\ docState[c] = "pending"
                  /\ docState'[c] \notin {"pending", "failed"})
                  => /\ promiseState'[c] = "pending"
                     /\ ~loaded => ~loaded'
                     /\ pages = {} => pages' = {}
           /\ docState[c] = "cancelled" => promiseState'[c] = "pending"]_vars

\* C16: while loaded is false a keyup or touchstart event changes nothing: no
\* key or touch changes progress, the cache or the visible page, and Escape
\* does not stop the player.
C16_EventsIgnoredUntilLoaded ==
    [][(~loaded /\ event' \in {"keyup", "touchstart"})
           => /\ UNCHANGED <<player, listeners, dom, cycles, inflight, history>>
              /\ called' = "none"
              /\ effects' = {}
              /\ loadNumber' = 0]_vars

\* A keyup event was handled while the document load was in flight.
C16_Witness ==
    /\ event = "keyup" /\ ~loaded /\ ~stopped
    /\ plays > 0 /\ docState[plays] = "pending"

\* C17: within one play cycle dialogHelper.close is called at most once,
\* whatever triggers stop(): the first stop() of the cycle closes the dialog
\* and clears mediaElement, every later stop() closes nothing.
C17_DialogClosedOncePerCycle ==
    [][/\ "dialogHelper.close" \in effects'
              => (~stopped /\ mediaElement /\ ~mediaElement' /\ ~dialogOpen')
       /\ (called' = "stop" /\ plays > 0 /\ ~stopped)
              => ("dialogHelper.close" \in effects' /\ ~mediaElement')
       /\ (called' = "stop" /\ stopped)
              => "dialogHelper.close" \notin effects']_vars

\* stop() was called again in a play cycle that was already stopped.
C17_Witness ==
    /\ called = "stop" /\ plays > 0 /\ stopped
    /\ effects = {"loading.hide"}
    /\ ~mediaElement

\* C18: each click on the toggle button flips the expanded flag of the
\* content, and whenever no animation timer is pending the content carries
\* 'hide' exactly when the flag is false and 'expanded' exactly when it is
\* true, and the icon carries its expanded class exactly when it is true,
\* whatever the order of the clicks and the timers.
C18_ClassesFollowFlag ==
    [][/\ (clicks' # clicks /\ hasContent) => expanded' = ~expanded
       /\ (attached' /\ hasContent' /\ timers' = <<>>)
              => /\ hideClass' <=> ~expanded'
                 /\ expandedClass' <=> expanded'
                 /\ iconExpanded' <=> expanded']_vars

\* Two clicks, the second before the timer of the first fired: the timer of
\* the slide down ran (height 'auto') after the content was collapsed again.
C18_Witness ==
    /\ hasContent /\ ~dataExpanded
    /\ clicks = 2 /\ timers = <<>>
    /\ ~expanded /\ hideClass
    /\ height = "auto"

\* C19: attachedCallback initialises the element once: a later invocation
\* inserts no button, registers no listener and leaves the expanded state
\* alone; the first leaves the content collapsed and hidden, or expanded when
\* data-expanded is "true".
C19_AttachedOnce ==
    [][attachedCalls' # attachedCalls
           => IF attached
              THEN UNCHANGED <<attached, buttons, clickListeners, content>>
              ELSE /\ buttons' = 1
                   /\ clickListeners' = 1
                   /\ hasContent =>
                          IF dataExpanded
                          THEN expanded' /\ expandedClass' /\ ~hideClass'
                          ELSE ~expanded' /\ ~expandedClass' /\ hideClass'
      ]_vars

\* attachedCallback ran again after a click had expanded the content.
C19_Witness ==
    /\ collapseOp = "attachedCallback" /\ attachedCalls >= 2
    /\ hasContent /\ ~dataExpanded
    /\ expanded /\ buttons = 1

====
